---- MODULE Spec2Model ----
(***************************************************************************)
(* RustKey input monitor (src/main.rs): the key-code table, the access     *)
(* mode computation of open_restricted, the button-number extraction from  *)
(* an event's debug text, and the dispatch / drain / sleep loop of main.    *)
(*                                                                         *)
(* Text is a sequence of one-character strings, offsets are 0-based as in  *)
(* Rust, and an Option<usize> of None is the value NoneIdx.  f64 values    *)
(* are integers (exactly representable, so f64 addition is exact on them). *)
(***************************************************************************)
EXTENDS Integers, Sequences, FiniteSets, TLC

VARIABLES
  pc,                 \* position of the process
  result,             \* Result of the most recent fallible call: "none", "ok", "err"
  queue,              \* libinput's pending events, filled by dispatch
  mouse_state,        \* MouseState {x, y, dx, dy}
  key_press_count,
  mouse_click_count,
  printed,            \* lines written to stdout by the most recent printing step
  last,               \* the event the for loop handled most recently
  hist,               \* history of the run: events arrived, handled, their sums
  key_code, key_text, \* key_name: argument and returned label
  debug_str, description, button_num,  \* button extraction: text and its results
  flags, read, write  \* open_restricted: argument and the OpenOptions access requested

loopVars == <<queue, mouse_state, key_press_count, mouse_click_count, printed, last, hist>>
fnVars   == <<key_code, key_text, debug_str, description, button_num, flags, read, write>>
vars     == <<pc, result, loopVars, fnVars>>

----------------------------------------------------------------------------
(* Bounds of the model *)

MaxKeyCode == 140     \* key_name is applied to 0..MaxKeyCode and to u32::MAX
MaxFlagHigh == 40     \* open flags are accmode + 4 * h, h in 0..MaxFlagHigh
MaxBody == 3          \* length of the generated text after "button: "
MaxEvents == 3        \* events libinput delivers over a run
MaxBatch == 2         \* events one dispatch may queue

----------------------------------------------------------------------------
(* str: find, contains, slicing, u32 parsing and formatting *)

NoneIdx == -1

Min(S) == CHOOSE m \in S : \A n \in S : m <= n

\* pat occurs in s at 0-based offset i
MatchAt(s, pat, i) ==
  /\ i + Len(pat) <= Len(s)
  /\ \A k \in 1..Len(pat) : s[i + k] = pat[k]

\* str::find: offset of the first occurrence, or None
find(s, pat) ==
  IF \E i \in 0..Len(s) : MatchAt(s, pat, i)
  THEN CHOOSE i \in 0..Len(s) :
         MatchAt(s, pat, i) /\ \A k \in 0..(i - 1) : ~MatchAt(s, pat, k)
  ELSE NoneIdx

contains(s, pat) == find(s, pat) # NoneIdx

\* &s[a..b] panics unless a <= b <= len
SliceOk(s, a, b) == a <= b /\ b <= Len(s)
Slice(s, a, b) == SubSeq(s, a + 1, b)
SliceFrom(s, a) == SubSeq(s, a + 1, Len(s))

Digits == <<"0","1","2","3","4","5","6","7","8","9">>
IsDigit(ch) == \E d \in 1..10 : Digits[d] = ch
DigitVal(ch) == (CHOOSE d \in 1..10 : Digits[d] = ch) - 1

\* A u32 is its canonical decimal text (no leading zero): TLC's integers end
\* at 2^31 - 1, below u32::MAX.
U32Max == <<"4","2","9","4","9","6","7","2","9","5">>
Zero == <<"0">>

RECURSIVE StripZeros(_)
StripZeros(s) == IF Len(s) > 1 /\ s[1] = "0" THEN StripZeros(Tail(s)) ELSE s

\* a <= b for canonical decimal texts
DecLeq(a, b) ==
  \/ Len(a) < Len(b)
  \/ /\ Len(a) = Len(b)
     /\ \/ a = b
        \/ \E k \in 1..Len(a) :
              /\ \A m \in 1..(k - 1) : a[m] = b[m]
              /\ DigitVal(a[k]) < DigitVal(b[k])

ParseErr == [ok |-> FALSE, val |-> Zero]

\* str::parse::<u32>: an optional '+', then digits only, the value at most u32::MAX
parse_u32(s) ==
  IF s = <<>> THEN ParseErr
  ELSE IF s[1] \in {"+", "-"} /\ Len(s) = 1 THEN ParseErr
  ELSE LET digits == IF s[1] = "+" THEN Tail(s) ELSE s
       IN  IF \E k \in 1..Len(digits) : ~IsDigit(digits[k]) THEN ParseErr
           ELSE IF ~DecLeq(StripZeros(digits), U32Max) THEN ParseErr
           ELSE [ok |-> TRUE, val |-> StripZeros(digits)]

\* Display of a u32: the canonical decimal text, which the value already is
to_string(n) == StripZeros(n)

\* the u32 of a small number of the model
RECURSIVE Dec(_)
Dec(n) == IF n < 10 THEN <<Digits[n + 1]>> ELSE Dec(n \div 10) \o <<Digits[(n % 10) + 1]>>

----------------------------------------------------------------------------
(* key_name *)

\* the arms of the match, in source order (the label of code 41, a single
\* grave accent, is written BACKTICK: the character cannot stand in a string here)
KeyArms ==
   << [code |-> 1, name |-> "ESC"], [code |-> 28, name |-> "ENTER"], 
      [code |-> 14, name |-> "BACKSPACE"], [code |-> 15, name |-> "TAB"], 
      [code |-> 57, name |-> "SPACE"], [code |-> 16, name |-> "Q"], 
      [code |-> 17, name |-> "W"], [code |-> 18, name |-> "E"], 
      [code |-> 19, name |-> "R"], [code |-> 20, name |-> "T"], 
      [code |-> 21, name |-> "Y"], [code |-> 22, name |-> "U"], 
      [code |-> 23, name |-> "I"], [code |-> 24, name |-> "O"], 
      [code |-> 25, name |-> "P"], [code |-> 30, name |-> "A"], 
      [code |-> 31, name |-> "S"], [code |-> 32, name |-> "D"], 
      [code |-> 33, name |-> "F"], [code |-> 34, name |-> "G"], 
      [code |-> 35, name |-> "H"], [code |-> 36, name |-> "J"], 
      [code |-> 37, name |-> "K"], [code |-> 38, name |-> "L"], 
      [code |-> 44, name |-> "Z"], [code |-> 45, name |-> "X"], 
      [code |-> 46, name |-> "C"], [code |-> 47, name |-> "V"], 
      [code |-> 48, name |-> "B"], [code |-> 49, name |-> "N"], 
      [code |-> 50, name |-> "M"], [code |-> 103, name |-> "UP"], 
      [code |-> 105, name |-> "LEFT"], [code |-> 106, name |-> "RIGHT"], 
      [code |-> 108, name |-> "DOWN"], [code |-> 59, name |-> "F1"], 
      [code |-> 60, name |-> "F2"], [code |-> 61, name |-> "F3"], 
      [code |-> 62, name |-> "F4"], [code |-> 63, name |-> "F5"], 
      [code |-> 64, name |-> "F6"], [code |-> 65, name |-> "F7"], 
      [code |-> 66, name |-> "F8"], [code |-> 67, name |-> "F9"], 
      [code |-> 68, name |-> "F10"], [code |-> 87, name |-> "F11"], 
      [code |-> 88, name |-> "F12"], [code |-> 29, name |-> "CTRL"], 
      [code |-> 42, name |-> "SHIFT (LEFT)"], 
      [code |-> 54, name |-> "SHIFT (RIGHT)"], [code |-> 56, name |-> "ALT"], 
      [code |-> 100, name |-> "ALT GR"], 
      [code |-> 125, name |-> "SUPER/WIN"], [code |-> 2, name |-> "1"], 
      [code |-> 3, name |-> "2"], [code |-> 4, name |-> "3"], 
      [code |-> 5, name |-> "4"], [code |-> 6, name |-> "5"], 
      [code |-> 7, name |-> "6"], [code |-> 8, name |-> "7"], 
      [code |-> 9, name |-> "8"], [code |-> 10, name |-> "9"], 
      [code |-> 11, name |-> "0"], [code |-> 12, name |-> "-"], 
      [code |-> 13, name |-> "="], [code |-> 26, name |-> "["], 
      [code |-> 27, name |-> "]"], [code |-> 39, name |-> ";"], 
      [code |-> 40, name |-> "'"], [code |-> 41, name |-> "BACKTICK"], 
      [code |-> 43, name |-> "\\"], [code |-> 51, name |-> ","], 
      [code |-> 52, name |-> "."], [code |-> 53, name |-> "/"], 
      [code |-> 58, name |-> "CAPS LOCK"], 
      [code |-> 69, name |-> "NUM LOCK"], 
      [code |-> 70, name |-> "SCROLL LOCK"], [code |-> 71, name |-> "NUM 7"], 
      [code |-> 72, name |-> "NUM 8"], [code |-> 73, name |-> "NUM 9"], 
      [code |-> 74, name |-> "NUM -"], [code |-> 75, name |-> "NUM 4"], 
      [code |-> 76, name |-> "NUM 5"], [code |-> 77, name |-> "NUM 6"], 
      [code |-> 78, name |-> "NUM +"], [code |-> 79, name |-> "NUM 1"], 
      [code |-> 80, name |-> "NUM 2"], [code |-> 81, name |-> "NUM 3"], 
      [code |-> 82, name |-> "NUM 0"], [code |-> 83, name |-> "NUM ."], 
      [code |-> 96, name |-> "NUM ENTER"], [code |-> 98, name |-> "NUM /"], 
      [code |-> 55, name |-> "NUM *"], [code |-> 113, name |-> "MUTE"], 
      [code |-> 114, name |-> "VOLUME DOWN"], 
      [code |-> 115, name |-> "VOLUME UP"], 
      [code |-> 99, name |-> "PRINT SCREEN"], 
      [code |-> 119, name |-> "PAUSE"], [code |-> 110, name |-> "HOME"], 
      [code |-> 102, name |-> "PAGE UP"], [code |-> 107, name |-> "END"], 
      [code |-> 109, name |-> "PAGE DOWN"], 
      [code |-> 111, name |-> "DELETE"], [code |-> 118, name |-> "INSERT"], 
      [code |-> 127, name |-> "PAUSE"], 
      [code |-> 128, name |-> "PREV TRACK"], 
      [code |-> 129, name |-> "NEXT TRACK"], [code |-> 130, name |-> "STOP"], 
      [code |-> 131, name |-> "PLAY/PAUSE"] >>

UnknownKey == "UNKNOWN KEY"

key_name_skip_first(code) ==
  LET hits == {i \in 2..Len(KeyArms) : KeyArms[i].code = code}
  IN  IF hits = {} THEN UnknownKey ELSE KeyArms[Min(hits)].name

\* a match takes the first arm whose pattern equals the code, else the _ arm
key_name(code) ==
  LET hits == {i \in 1..Len(KeyArms) : KeyArms[i].code = code}
  IN  IF hits = {} THEN UnknownKey ELSE KeyArms[Min(hits)].name

----------------------------------------------------------------------------
(* open_restricted *)

O_RDONLY == 0
O_WRONLY == 1
O_RDWR == 2

RECURSIVE BitAnd(_, _)
BitAnd(a, b) ==
  IF a = 0 \/ b = 0 THEN 0
  ELSE (a % 2) * (b % 2) + 2 * BitAnd(a \div 2, b \div 2)

\* .read((flags & O_RDONLY != 0) | (flags & O_RDWR != 0))
read_requested(fl) == (BitAnd(fl, O_RDONLY) # 0) \/ (BitAnd(fl, O_RDWR) # 0)
\* .write((flags & O_WRONLY != 0) | (flags & O_RDWR != 0))
write_requested(fl) == (BitAnd(fl, O_WRONLY) # 0) \/ (BitAnd(fl, O_RDWR) # 0)

----------------------------------------------------------------------------
(* Button number extraction from the debug text of a button event *)

kwButton == <<"b","u","t","t","o","n",":"," ">>
Comma == <<",">>
kwPressed == <<"P","r","e","s","s","e","d">>
kwReleased == <<"R","e","l","e","a","s","e","d">>
\* "Mouse button" (the literal's leading emoji is left out)
MouseButton == <<"M","o","u","s","e"," ","b","u","t","t","o","n">>
SufPressed == <<" ","-"," ","P","R","E","S","S","E","D">>
SufReleased == <<" ","-"," ","R","E","L","E","A","S","E","D">>

\* match btn { 272 => "LEFT", ..., _ => btn_str }
button_name(btn, btn_str) ==
  CASE btn = Dec(272) -> <<"L","E","F","T">>
    [] btn = Dec(273) -> <<"R","I","G","H","T">>
    [] btn = Dec(274) -> <<"M","I","D","D","L","E">>
    [] btn = Dec(275) -> <<"S","I","D","E">>
    [] btn = Dec(276) -> <<"E","X","T","R","A">>
    [] OTHER -> btn_str

comma_anywhere(s, btn_start) == find(s, Comma)

\* debug_str[btn_start..].find(","): relative to btn_start
comma_after(s, btn_start) == find(SliceFrom(s, btn_start), Comma)

\* The value of the one element of a singleton set.  The extraction below binds
\* each intermediate (btn_start, btn_end, btn_str, btn) once, as the if let
\* bindings of the source do, by ranging over the singleton of its value.
The(S) == CHOOSE r \in S : TRUE

\* lines 235-250, with btn_start and btn_end found
ExtractAt(s, btn_start, btn_end) ==
  IF ~SliceOk(s, btn_start + 8, btn_start + btn_end)
  THEN {[description |-> MouseButton, button_num |-> Zero, panic |-> TRUE]}
  ELSE {IF btn.ok
        THEN [description |-> MouseButton \o <<" ">> \o button_name(btn.val, btn_str)
                                \o <<" ", "(">> \o to_string(btn.val) \o <<")">>,
              button_num |-> btn.val, panic |-> FALSE]
        ELSE [description |-> MouseButton \o <<" ">> \o btn_str,
              button_num |-> Zero, panic |-> FALSE] :
           btn_str \in {Slice(s, btn_start + 8, btn_start + btn_end)},
           btn \in {parse_u32(Slice(s, btn_start + 8, btn_start + btn_end))}}

\* lines 229-253: description, button_num, and whether a slice panicked
ExtractButton(s) ==
  The(UNION {UNION {IF ~contains(s, kwButton) \/ btn_start = NoneIdx \/ btn_end = NoneIdx
                    THEN {[description |-> MouseButton, button_num |-> Zero, panic |-> FALSE]}
                    ELSE ExtractAt(s, btn_start, btn_end) :
                       btn_end \in {IF btn_start = NoneIdx THEN NoneIdx
                                    ELSE comma_after(s, btn_start)}} :
               btn_start \in {find(s, kwButton)}})

----------------------------------------------------------------------------
(* Events, and the state of main before its loop *)

NoEvent ==
  [cat |-> "None", variant |-> "None", key |-> 0, state |-> "None",
   dx |-> 0, dy |-> 0, axes |-> {}, dbg |-> <<>>, seq |-> 0]

Ev(cat, variant) == [NoEvent EXCEPT !.cat = cat, !.variant = variant]

\* Debug text of a button event: a derived-Debug struct, or an opaque handle
DerivedDebug(btn, state) ==
  <<"P","o","i","n","t","e","r","B","u","t","t","o","n","E","v","e","n","t"," ","{"," ">> \o kwButton \o Dec(btn) \o <<","," ","b","u","t","t","o","n","_","s","t","a","t","e",":"," ">>
     \o (IF state = "Pressed" THEN kwPressed ELSE kwReleased) \o <<" ","}">>
OpaqueDebug == <<"P","o","i","n","t","e","r","B","u","t","t","o","n","E","v","e","n","t"," ","@","0","x","7","f","3","a">>

DeviceEvents == {Ev("Device", v) : v \in {"Added", "Removed", "Other"}}
KeyboardEvents ==
  {[Ev("Keyboard", "Key") EXCEPT !.key = k[1], !.state = k[2]] :
      k \in {<<28, "Pressed">>, <<28, "Released">>, <<240, "Pressed">>}}
    \cup {Ev("Keyboard", "Other")}
MotionEvents ==
  {[Ev("Pointer", "Motion") EXCEPT !.dx = d[1], !.dy = d[2]] : d \in {<<1, -2>>, <<3, 0>>}}
MotionAbsoluteEvents == {[Ev("Pointer", "MotionAbsolute") EXCEPT !.dx = 7, !.dy = 5]}
ButtonEvents ==
  UNION {{[Ev("Pointer", "Button") EXCEPT !.state = s, !.dbg = t] :
             t \in {DerivedDebug(272, s), OpaqueDebug}} : s \in {"Pressed", "Released"}}
ScrollEvents ==
  {[Ev("Pointer", "ScrollWheel") EXCEPT !.axes = {"Vertical"}, !.dx = 120, !.dy = -120]}
    \cup {Ev("Pointer", "ScrollFinger"), Ev("Pointer", "ScrollContinuous")}
OtherPointerEvents ==
  {[Ev("Pointer", "Other") EXCEPT !.dbg = t] : t \in {<<"A","x","i","s","(","P","o","i","n","t","e","r","A","x","i","s","E","v","e","n","t",")">>, <<"U","n","k","n","o","w","n">>}}
TouchEvents == {[Ev("Touch", "Touch") EXCEPT !.dbg =
  <<"D","o","w","n","(","T","o","u","c","h","D","o","w","n","E","v","e","n","t",")">>]}
GestureEvents == {[Ev("Gesture", "Gesture") EXCEPT !.dbg = <<"H","o","l","d">>]}
RestEvents == {Ev("Tablet", "Tablet"), Ev("Switch", "Switch"), Ev("Other", "Other")}

EventKinds ==
  DeviceEvents \cup KeyboardEvents \cup MotionEvents \cup MotionAbsoluteEvents
    \cup ButtonEvents \cup ScrollEvents \cup OtherPointerEvents
    \cup TouchEvents \cup GestureEvents \cup RestEvents

Line(label, key, text, nums) == [label |-> label, key |-> key, text |-> text, nums |-> nums]

\* mouse_state, the counters, and the record of the run, as main sets them up
LoopInit ==
  /\ queue = <<>>
  /\ mouse_state = [x |-> 0, y |-> 0, dx |-> 0, dy |-> 0]
  /\ key_press_count = 0
  /\ mouse_click_count = 0
  /\ printed = <<>>
  /\ last = NoEvent
  /\ hist = [arrived |-> 0, handled |-> 0, presses |-> 0, clicks |-> 0,
             sum_dx |-> 0, sum_dy |-> 0, abs_seen |-> FALSE, motion |-> <<0, 0>>]

FnInit ==
  /\ key_code = 0 /\ key_text = ""
  /\ debug_str = <<>> /\ description = <<>> /\ button_num = Zero
  /\ flags = 0 /\ read = FALSE /\ write = FALSE

----------------------------------------------------------------------------
(* key_name applied to one key code *)

KeyCodes == 0..MaxKeyCode \cup {65535, 2147483647}

InitKeyName ==
  /\ pc = "call" /\ result = "none" /\ LoopInit
  /\ key_code \in KeyCodes /\ key_text = ""
  /\ debug_str = <<>> /\ description = <<>> /\ button_num = Zero
  /\ flags = 0 /\ read = FALSE /\ write = FALSE

CallKeyName ==
  /\ pc = "call"
  /\ key_text' = key_name(key_code)
  /\ pc' = "returned"
  /\ UNCHANGED <<result, loopVars, key_code, debug_str, description, button_num,
                 flags, read, write>>

SpecKeyName == InitKeyName /\ [][CallKeyName]_vars

----------------------------------------------------------------------------
(* open_restricted applied to one flags word *)

OpenFlags == {m + 4 * h : m \in {O_RDONLY, O_WRONLY, O_RDWR}, h \in 0..MaxFlagHigh}

InitOpen ==
  /\ pc = "call" /\ result = "none" /\ LoopInit
  /\ key_code = 0 /\ key_text = ""
  /\ debug_str = <<>> /\ description = <<>> /\ button_num = Zero
  /\ flags \in OpenFlags /\ read = FALSE /\ write = FALSE

CallOpenRestricted ==
  /\ pc = "call"
  /\ read' = read_requested(flags)
  /\ write' = write_requested(flags)
  /\ pc' = "returned"
  /\ UNCHANGED <<result, loopVars, key_code, key_text, debug_str, description,
                 button_num, flags>>

SpecOpen == InitOpen /\ [][CallOpenRestricted]_vars

----------------------------------------------------------------------------
(* The button extraction applied to one debug text *)

BodyChars == {"2", "7", "x", "+"}
Bodies ==
  UNION {[1..n -> BodyChars] : n \in 0..MaxBody}
    \cup {Dec(b) : b \in {272, 273, 274, 275, 276, 5}}
    \cup {U32Max, <<"4","2","9","4","9","6","7","2","9","6">>}
    \cup {<<"0","2","7","2">>, <<" ","2","7","2">>, <<"-","5">>}
Prefixes == {<<>>, <<"P","o","i","n","t","e","r","B","u","t","t","o","n","E","v","e","n","t"," ","{"," ">>, <<"s","e","a","t","_","b","u","t","t","o","n",":"," ","1",","," ">>, <<"t","i","m","e",":"," ","5",","," ">>}
Suffixes == {<<>>, <<" ","}">>, <<","," ","b","u","t","t","o","n","_","s","t","a","t","e",":"," ">> \o kwPressed \o <<" ","}">>, <<",">>}

ButtonTexts ==
  {p \o kwButton \o b \o s : p \in Prefixes, b \in Bodies, s \in Suffixes}
    \cup {p \o s : p \in Prefixes, s \in Suffixes}
    \cup {OpaqueDebug}

InitButton ==
  /\ pc = "call" /\ result = "none" /\ LoopInit
  /\ key_code = 0 /\ key_text = ""
  /\ debug_str \in ButtonTexts /\ description = <<>> /\ button_num = Zero
  /\ flags = 0 /\ read = FALSE /\ write = FALSE

CallExtractButton ==
  /\ pc = "call"
  /\ LET r == ExtractButton(debug_str)
     IN  /\ description' = r.description
         /\ button_num' = r.button_num
         /\ pc' = IF r.panic THEN "panicked" ELSE "returned"
  /\ UNCHANGED <<result, loopVars, key_code, key_text, debug_str, flags, read, write>>

SpecButton == InitButton /\ [][CallExtractButton]_vars

----------------------------------------------------------------------------
(* main: seat assignment, then the loop dispatch -> drain -> sleep *)

unwrap_ignoring_err(res, next) == next

\* Result::unwrap: Ok goes on to next, Err panics and the process is gone
unwrap(res, next) == IF res = "ok" THEN next ELSE "aborted"

\* the eight lines display_welcome_message prints
Welcome ==
  [i \in 1..8 |-> Line(<<"rule", "title", "rule", "", "tagline", "", "waiting", "dashes">>[i],
                       "", <<>>, <<>>)]

Init ==
  /\ pc = "assign_seat" /\ result = "none" /\ LoopInit /\ FnInit

\* input.udev_assign_seat("seat0").unwrap(); display_welcome_message(); the initial state
AssignSeat ==
  /\ pc = "assign_seat"
  /\ \E res \in {"ok", "err"} :
       /\ result' = res
       /\ pc' = unwrap(res, "dispatch")
       /\ printed' = IF unwrap(res, "dispatch") = "dispatch" THEN Welcome ELSE printed
  /\ UNCHANGED <<queue, mouse_state, key_press_count, mouse_click_count, last, hist, fnVars>>

\* the events of one refresh, each stamped with its arrival number
Stamp(batch, from) == [i \in 1..Len(batch) |-> [batch[i] EXCEPT !.seq = from + i]]

\* input.dispatch() returns Ok: libinput has queued the events that were pending
DispatchOk ==
  /\ pc = "dispatch"
  /\ \E n \in 0..MaxBatch :
       /\ hist.arrived + n <= MaxEvents
       /\ \E batch \in [1..n -> EventKinds] :
            /\ queue' = queue \o Stamp(batch, hist.arrived)
            /\ hist' = [hist EXCEPT !.arrived = @ + n]
  /\ result' = "ok"
  /\ pc' = unwrap("ok", "drain")
  /\ UNCHANGED <<mouse_state, key_press_count, mouse_click_count, printed, last, fnVars>>

\* input.dispatch() returns Err
DispatchErr ==
  /\ pc = "dispatch"
  /\ result' = "err"
  /\ pc' = unwrap("err", "drain")
  /\ UNCHANGED <<loopVars, fnVars>>

\* what the run has seen once ev is handled
Observe(h, ev) ==
  [h EXCEPT
     !.handled = @ + 1,
     !.presses = @ + (IF ev.cat = "Keyboard" /\ ev.variant = "Key" /\ ev.state = "Pressed"
                      THEN 1 ELSE 0),
     !.clicks = @ + (IF ev.cat = "Pointer" /\ ev.variant = "Button" /\ ev.state = "Pressed"
                     THEN 1 ELSE 0),
     !.sum_dx = @ + (IF ev.cat = "Pointer" /\ ev.variant = "Motion" THEN ev.dx ELSE 0),
     !.sum_dy = @ + (IF ev.cat = "Pointer" /\ ev.variant = "Motion" THEN ev.dy ELSE 0),
     !.abs_seen = @ \/ (ev.cat = "Pointer" /\ ev.variant = "MotionAbsolute"),
     !.motion = IF ev.cat = "Pointer" /\ ev.variant = "Motion" THEN <<ev.dx, ev.dy>> ELSE @]

\* the for loop takes the next event from the iterator
Take(cat, variants) ==
  /\ pc = "drain"
  /\ queue # <<>>
  /\ Head(queue).cat = cat
  /\ Head(queue).variant \in variants
  /\ queue' = Tail(queue)
  /\ last' = Head(queue)
  /\ hist' = Observe(hist, Head(queue))
  /\ UNCHANGED <<result, fnVars>>

\* text up to the first '(' of the debug text, or the whole debug text
VariantOf(dbg) ==
  LET end == find(dbg, <<"(">>)
  IN  IF end # NoneIdx THEN Slice(dbg, 0, end) ELSE dbg

HandleDevice ==
  /\ Take("Device", {"Added", "Removed", "Other"})
  /\ printed' = << Line(CASE Head(queue).variant = "Added" -> "Device Added"
                          [] Head(queue).variant = "Removed" -> "Device Removed"
                          [] OTHER -> "Other Device Event", "", <<>>, <<>>) >>
  /\ pc' = "drain"
  /\ UNCHANGED <<mouse_state, key_press_count, mouse_click_count>>

key_press_lines_one(key_text_, code, count) ==
  << Line("KEY PRESS DETECTED", key_text_, <<>>, <<code, count>>) >>

\* the two println! of a key press
key_press_lines(key_text_, code, count) ==
  << Line("KEY PRESS DETECTED", key_text_, <<>>, <<code>>),
     Line("YOU PRESSED", key_text_, <<>>, <<count>>) >>

count_unchanged(count) == count

other_keyboard_silent == <<>>

\* the else arm of the if let on KeyboardEvent::Key
other_keyboard_lines == << Line("Other Keyboard Event", "", <<>>, <<>>) >>

\* count += 1
increment(count) == count + 1

HandleKeyboard ==
  /\ Take("Keyboard", {"Key", "Other"})
  /\ LET ev == Head(queue)
         text == key_name(ev.key)
     IN  IF ev.variant = "Key"
         THEN IF ev.state = "Pressed"
              THEN /\ key_press_count' = increment(key_press_count)
                   /\ printed' = key_press_lines(text, ev.key, increment(key_press_count))
              ELSE /\ key_press_count' = key_press_count
                   /\ printed' = << Line("KEY RELEASE DETECTED", text, <<>>, <<ev.key>>) >>
         ELSE /\ key_press_count' = key_press_count
              /\ printed' = other_keyboard_lines
  /\ pc' = "drain"
  /\ UNCHANGED <<mouse_state, mouse_click_count>>

moved_to_delta(pos, delta) == delta

\* mouse_state.x += motion.dx()
moved(pos, delta) == pos + delta

HandleMotion ==
  /\ Take("Pointer", {"Motion"})
  /\ LET ev == Head(queue)
     IN  /\ mouse_state' = [x |-> moved(mouse_state.x, ev.dx), y |-> moved(mouse_state.y, ev.dy),
                            dx |-> ev.dx, dy |-> ev.dy]
         /\ printed' = << Line("Mouse motion", "", <<>>,
                               <<moved(mouse_state.x, ev.dx), moved(mouse_state.y, ev.dy),
                                 ev.dx, ev.dy>>) >>
  /\ pc' = "drain"
  /\ UNCHANGED <<key_press_count, mouse_click_count>>

HandleMotionAbsolute ==
  /\ Take("Pointer", {"MotionAbsolute"})
  /\ LET ev == Head(queue)
     IN  /\ mouse_state' = [mouse_state EXCEPT !.x = ev.dx, !.y = ev.dy]
         /\ printed' = << Line("Mouse absolute position", "", <<>>, <<ev.dx, ev.dy>>) >>
  /\ pc' = "drain"
  /\ UNCHANGED <<key_press_count, mouse_click_count>>

\* lines 255-268: the click count and the line printed for a button event
ButtonOutcome(dbg, desc, at, count) ==
  IF contains(dbg, kwPressed)
  THEN [count |-> increment(count),
        printed |-> << Line("Mouse button", "", desc \o SufPressed,
                            at \o <<increment(count)>>) >>]
  ELSE IF contains(dbg, kwReleased)
  THEN [count |-> count,
        printed |-> << Line("Mouse button", "", desc \o SufReleased, at) >>]
  ELSE [count |-> count, printed |-> <<>>]

HandleButton ==
  /\ Take("Pointer", {"Button"})
  /\ pc' = IF ExtractButton(Head(queue).dbg).panic THEN "aborted" ELSE "drain"
  /\ mouse_click_count' =
       IF ExtractButton(Head(queue).dbg).panic THEN mouse_click_count
       ELSE ButtonOutcome(Head(queue).dbg, ExtractButton(Head(queue).dbg).description,
                          <<mouse_state.x, mouse_state.y>>, mouse_click_count).count
  /\ printed' =
       IF ExtractButton(Head(queue).dbg).panic THEN printed
       ELSE ButtonOutcome(Head(queue).dbg, ExtractButton(Head(queue).dbg).description,
                          <<mouse_state.x, mouse_state.y>>, mouse_click_count).printed
  /\ UNCHANGED <<mouse_state, key_press_count>>

HandleScroll ==
  /\ Take("Pointer", {"ScrollWheel", "ScrollFinger", "ScrollContinuous"})
  /\ LET ev == Head(queue)
         scroll_y == IF "Vertical" \in ev.axes THEN ev.dy ELSE 0
         scroll_x == IF "Horizontal" \in ev.axes THEN ev.dx ELSE 0
     IN  printed' = << CASE ev.variant = "ScrollWheel" ->
                              Line("Scroll wheel", "", <<>>, <<scroll_x, scroll_y>>)
                         [] ev.variant = "ScrollFinger" ->
                              Line("Scroll finger event", "", <<>>, <<>>)
                         [] OTHER -> Line("Scroll continuous event", "", <<>>, <<>>) >>
  /\ pc' = "drain"
  /\ UNCHANGED <<mouse_state, key_press_count, mouse_click_count>>

HandleOtherPointer ==
  /\ Take("Pointer", {"Other"})
  /\ printed' = << IF contains(Head(queue).dbg, <<"(">>)
                   THEN Line("Pointer Event", "", VariantOf(Head(queue).dbg), <<>>)
                   ELSE Line("Other Pointer Event", "", Head(queue).dbg, <<>>) >>
  /\ pc' = "drain"
  /\ UNCHANGED <<mouse_state, key_press_count, mouse_click_count>>

HandleTouch ==
  /\ Take("Touch", {"Touch"})
  /\ printed' = << Line("Touch Event", "", VariantOf(Head(queue).dbg), <<>>) >>
  /\ pc' = "drain"
  /\ UNCHANGED <<mouse_state, key_press_count, mouse_click_count>>

HandleGesture ==
  /\ Take("Gesture", {"Gesture"})
  /\ printed' = << Line("Gesture Event", "", VariantOf(Head(queue).dbg), <<>>) >>
  /\ pc' = "drain"
  /\ UNCHANGED <<mouse_state, key_press_count, mouse_click_count>>

HandleTablet ==
  /\ Take("Tablet", {"Tablet"})
  /\ printed' = << Line("Tablet Event", "", <<>>, <<>>) >>
  /\ pc' = "drain"
  /\ UNCHANGED <<mouse_state, key_press_count, mouse_click_count>>

HandleSwitch ==
  /\ Take("Switch", {"Switch"})
  /\ printed' = << Line("Switch Event", "", <<>>, <<>>) >>
  /\ pc' = "drain"
  /\ UNCHANGED <<mouse_state, key_press_count, mouse_click_count>>

HandleOther ==
  /\ Take("Other", {"Other"})
  /\ printed' = << Line("Other Event", "", <<>>, <<>>) >>
  /\ pc' = "drain"
  /\ UNCHANGED <<mouse_state, key_press_count, mouse_click_count>>

sleep_at_once(q) == TRUE

\* the iterator returns None once libinput's queue is empty
drained(q) == q = <<>>

\* the for loop ends; sleep(Duration::from_millis(5)) is next
EndDrain ==
  /\ pc = "drain"
  /\ drained(queue)
  /\ pc' = "sleep"
  /\ UNCHANGED <<result, loopVars, fnVars>>

\* sleep returns and the loop starts over
Sleep ==
  /\ pc = "sleep"
  /\ pc' = "dispatch"
  /\ UNCHANGED <<result, loopVars, fnVars>>

Handle ==
  \/ HandleDevice \/ HandleKeyboard \/ HandleMotion \/ HandleMotionAbsolute
  \/ HandleButton \/ HandleScroll \/ HandleOtherPointer \/ HandleTouch
  \/ HandleGesture \/ HandleTablet \/ HandleSwitch \/ HandleOther

Next ==
  \/ AssignSeat \/ DispatchOk \/ DispatchErr
  \/ Handle
  \/ EndDrain \/ Sleep

Spec == Init /\ [][Next]_vars

----------------------------------------------------------------------------
(* Claims *)

IsKeyPress(ev) == ev.cat = "Keyboard" /\ ev.variant = "Key" /\ ev.state = "Pressed"
Handling == pc = "drain" /\ queue # <<>>

\* C1: key_name returns the label of the table entry of a code that has one
\* (1 -> ESC, 28 -> ENTER, 57 -> SPACE), and UNKNOWN KEY for every other code;
\* it returns for every code.
C1_KeyNameTotal ==
  /\ pc \in {"call", "returned"}
  /\ pc = "call" => ENABLED CallKeyName
  /\ pc = "returned" =>
       /\ \A i \in 1..Len(KeyArms) : KeyArms[i].code = key_code => key_text = KeyArms[i].name
       /\ (\A i \in 1..Len(KeyArms) : KeyArms[i].code # key_code) => key_text = "UNKNOWN KEY"
       /\ key_code = 1 => key_text = "ESC"
       /\ key_code = 28 => key_text = "ENTER"
       /\ key_code = 57 => key_text = "SPACE"

C1_Witness == pc = "returned" /\ key_code = 57 /\ key_text = "SPACE"

\* C2: the key-press counter is the number of Key events in state Pressed handled
\* so far; a key press adds exactly one, every other step leaves it as it is.
C2_KeyPressCounter ==
  /\ [](key_press_count = hist.presses)
  /\ [][IF Handling /\ IsKeyPress(Head(queue))
        THEN key_press_count' = key_press_count + 1
        ELSE key_press_count' = key_press_count]_vars

C2_Witness == key_press_count = 2 /\ hist.handled = 3 /\ ~IsKeyPress(last)

\* C3: the mouse-click counter is the number of pointer Button events in the
\* pressed state handled so far.
C3_ClickCounter == mouse_click_count = hist.clicks

\* C4: while no MotionAbsolute event has been handled, the position is the sum of
\* the deltas of the Motion events handled so far, and the stored delta is that of
\* the most recent Motion event.
C4_PositionIsSum ==
  ~hist.abs_seen =>
     /\ mouse_state.x = hist.sum_dx
     /\ mouse_state.y = hist.sum_dy
     /\ <<mouse_state.dx, mouse_state.dy>> = hist.motion

C4_Witness ==
  /\ ~hist.abs_seen /\ hist.handled = 3
  /\ mouse_state = [x |-> 5, y |-> -4, dx |-> 1, dy |-> -2]

\* C5 as stated: every handled event prints exactly one line.
C5_OneLinePerEvent == last.cat # "None" => Len(printed) = 1

NoStateWord(ev) ==
  /\ ev.cat = "Pointer" /\ ev.variant = "Button"
  /\ ~contains(ev.dbg, kwPressed) /\ ~contains(ev.dbg, kwReleased)

\* C5: every handled event prints exactly one line, except a key press, which
\* prints two, and a button event whose debug text holds neither "Pressed" nor
\* "Released", which prints none.
C5_LinesPerEvent ==
  last.cat # "None" =>
     Len(printed) = (IF IsKeyPress(last) THEN 2 ELSE IF NoStateWord(last) THEN 0 ELSE 1)

C5_Witness == IsKeyPress(last) /\ Len(printed) = 2 /\ printed[2].label = "YOU PRESSED"

\* C6: once seat assignment or dispatch has failed the process is gone: nothing
\* is handled, printed or counted after it, and dispatch is not called again.
C6_FailureAborts ==
  /\ [](result = "err" => pc = "aborted")
  /\ [][pc # "aborted" /\ result # "err"]_vars

C6_Witness == pc = "aborted" /\ result = "err" /\ hist.handled = 2

Unrecognized(ev) ==
  \/ ev.cat = "Other"
  \/ ev.cat \in {"Keyboard", "Device", "Pointer"} /\ ev.variant = "Other"

FallbackLabels ==
  {"Other Event", "Other Keyboard Event", "Other Device Event",
   "Pointer Event", "Other Pointer Event"}

\* C7: handling an event never ends the process, and an event of an unrecognized
\* category or variant prints one fallback label and leaves the counters and the
\* cursor state as they are; the loop goes on with the rest of the queue.
C7_FallbackNeverFails ==
  [][Handling =>
       /\ pc' = "drain"
       /\ queue' = Tail(queue)
       /\ Unrecognized(Head(queue)) =>
            /\ Len(printed') = 1
            /\ printed'[1].label \in FallbackLabels
            /\ UNCHANGED <<mouse_state, key_press_count, mouse_click_count>>]_vars

C7_Witness ==
  /\ last.cat = "Keyboard" /\ last.variant = "Other"
  /\ printed = << Line("Other Keyboard Event", "", <<>>, <<>>) >>
  /\ pc = "drain" /\ queue # <<>>

\* C8: the loop cycles dispatch -> drain -> sleep: the queued events are handled
\* once each in queue order, sleep is reached only with the queue empty, and
\* without a failed call the loop always has a next step.
C8_LoopCycle ==
  /\ [](/\ pc \in {"sleep", "dispatch"} => queue = <<>>
        /\ \A i \in 1..Len(queue) : queue[i].seq = hist.handled + i
        /\ hist.handled + Len(queue) = hist.arrived
        /\ last.cat # "None" => last.seq = hist.handled
        /\ pc = "aborted" => result = "err"
        /\ pc = "dispatch" => ENABLED DispatchOk
        /\ pc = "drain" => ENABLED (Handle \/ EndDrain)
        /\ pc = "sleep" => ENABLED Sleep)
  /\ [][/\ pc = "dispatch" => pc' \in {"drain", "aborted"}
        /\ pc = "drain" =>
             IF queue = <<>> THEN pc' = "sleep"
             ELSE pc' = "drain" /\ last' = Head(queue) /\ queue' = Tail(queue)
        /\ pc = "sleep" => pc' = "dispatch"]_vars

C8_Witness == pc = "sleep" /\ hist.handled = 3 /\ hist.arrived = 3

\* the text between the "button: " at offset i and the comma at offset j
Between(s, i, j) == Slice(s, i + 8, j)
IsNumber(t) == t # <<>> /\ \A k \in 1..Len(t) : IsDigit(t[k])
NameOf(n, t) ==
  CASE n = Dec(272) -> <<"L","E","F","T">>
    [] n = Dec(273) -> <<"R","I","G","H","T">>
    [] n = Dec(274) -> <<"M","I","D","D","L","E">>
    [] n = Dec(275) -> <<"S","I","D","E">>
    [] n = Dec(276) -> <<"E","X","T","R","A">>
    [] OTHER -> t
Named(name, n) == MouseButton \o <<" ">> \o name \o <<" ", "(">> \o n \o <<")">>
ButtonAt(s) == {i \in 0..Len(s) : MatchAt(s, kwButton, i)}
CommaFrom(s, i) == {j \in i..(Len(s) - 1) : s[j + 1] = ","}

Generic(d) == SubSeq(d, 1, Len(MouseButton)) = MouseButton /\ ~contains(d, <<"(">>)

\* C9 as stated, read for the first "button: " of the text and the first comma
\* after it: a decimal number N between them (a leading + allowed) gives the id N
\* and the name of N; a text without "button: ", without a following comma or
\* with something else than a number between them keeps a generic label; no
\* slice panics.
C9_AsStated ==
  pc # "call" =>
     /\ pc = "returned"
     /\ IF ButtonAt(debug_str) = {} THEN Generic(description)
        ELSE LET i == Min(ButtonAt(debug_str))
             IN  IF CommaFrom(debug_str, i) = {} THEN Generic(description)
                 ELSE LET t == Between(debug_str, i, Min(CommaFrom(debug_str, i)))
                          num == IF t # <<>> /\ t[1] = "+" THEN Tail(t) ELSE t
                      IN  IF IsNumber(num)
                          THEN /\ button_num = StripZeros(num)
                               /\ description = Named(NameOf(StripZeros(num), t), StripZeros(num))
                          ELSE Generic(description)

\* C9: with t the text between the first "button: " and the first comma after
\* it: when t is a decimal number N of at most u32::MAX (a leading + allowed)
\* the id is N and the description names it LEFT, RIGHT, MIDDLE, SIDE, EXTRA for
\* 272..276 and t otherwise; when t is anything else, a larger number included,
\* the description is the generic label followed by t and the id stays 0;
\* without "button: " or without a comma after it the description is the
\* generic label alone; no slice panics.
C9_Extraction ==
  pc # "call" =>
     /\ pc = "returned"
     /\ IF ButtonAt(debug_str) = {} THEN description = MouseButton /\ button_num = Zero
        ELSE LET i == Min(ButtonAt(debug_str))
             IN  IF CommaFrom(debug_str, i) = {}
                 THEN description = MouseButton /\ button_num = Zero
                 ELSE LET t == Between(debug_str, i, Min(CommaFrom(debug_str, i)))
                          num == IF t # <<>> /\ t[1] = "+" THEN Tail(t) ELSE t
                      IN  IF IsNumber(num) /\ DecLeq(StripZeros(num), U32Max)
                          THEN /\ button_num = StripZeros(num)
                               /\ description = Named(NameOf(StripZeros(num), t), StripZeros(num))
                          ELSE /\ button_num = Zero
                               /\ description = MouseButton \o <<" ">> \o t

C9_Witness ==
  /\ pc = "returned" /\ button_num = Dec(273)
  /\ description = Named(<<"R","I","G","H","T">>, Dec(273))
  /\ contains(debug_str, kwPressed)

AccMode(fl) == fl % 4

\* C10: open_restricted asks for read access when the access mode of the flags
\* is O_RDONLY or O_RDWR, and for write access when it is O_WRONLY or O_RDWR.
C10_AccessMode ==
  pc = "returned" =>
     /\ AccMode(flags) \in {O_RDONLY, O_RDWR} => read
     /\ AccMode(flags) \in {O_WRONLY, O_RDWR} => write

====
